---- MODULE Spec2Model ----
(***************************************************************************)
(* State-machine model of the staking pool of staking/src/lib.rs           *)
(* (StakingContract + StakingPool) together with the PSP22 token of        *)
(* token/src/lib.rs that it moves.                                         *)
(*                                                                         *)
(* A message of the pool runs as one transaction: a panic (division by     *)
(* zero, checked arithmetic overflow, expect) traps the call and the host  *)
(* rolls back every change of the transaction, the token transfer made by  *)
(* the cross-contract call included.  A message that returns normally      *)
(* keeps its changes, whatever value it returns.                           *)
(***************************************************************************)
EXTENDS Integers, Sequences, FiniteSets, TLC

\* ------------------------------------------------------------------ bounds
MaxAmount == 2      \* amounts passed to stake / unstake / approve / transfer
Supply == 7         \* total supply minted by the token constructor
MaxPast == 1        \* whole days past the deadline the clock can reach
TimeBits == 29      \* width standing for the 64 bits of a timestamp
BalanceBits == 20   \* width standing for the 128 bits of a Balance
MaxFee == 1         \* largest fee a token withholds from one transfer

\* --------------------------------------------------------------- constants
Accounts == {"A", "B"}
Deployer == "A"
Pool == "pool"
Holders == Accounts \cup {Pool}
staked_token == "staked"
reward_token == "reward"
Tokens == {staked_token, reward_token}

DAY == 24 * 60 * 60
YEAR == 365 * 24 * 60 * 60
SCALE == 10000
U64 == 2 ^ TimeBits
U128 == 2 ^ BalanceBits
Created == 0

Amounts == 0 .. MaxAmount
\* An owner approves nothing or the largest amount.
Approvals == {0, MaxAmount}

VARIABLES
    balances,          \* BTreeMap<AccountId, u128>: a function on the keys present
    total_staked,
    staking_deadline,
    rewards,           \* Vec<u128>
    reward_per_token,
    last_update,
    now,               \* block_timestamp of the host
    overflow_checks,   \* build profile: TRUE = arithmetic overflow panics, FALSE = it wraps
    tokens,            \* [bal: Tokens -> Holders -> Nat, allow: Tokens -> Accounts -> Nat]
    transfer_fee,      \* what the deployed token withholds from a transfer (0: the token of token/src)
    last               \* the last message executed and what it returned

vars == << balances, total_staked, staking_deadline, rewards, reward_per_token,
           last_update, now, overflow_checks, tokens, transfer_fee, last >>

\* The StakingContract struct as one value.
pool_state == [ balances |-> balances, total_staked |-> total_staked,
                staking_deadline |-> staking_deadline, rewards |-> rewards,
                reward_per_token |-> reward_per_token, last_update |-> last_update ]

\* ---------------------------------------------------------------- helpers
\* balances.get(&account).copied().unwrap_or(0)
balance_of_staker(p, account) ==
    IF account \in DOMAIN p.balances THEN p.balances[account] ELSE 0

\* rewards.last().copied().unwrap_or(0)
last_reward(p) ==
    IF Len(p.rewards) = 0 THEN 0 ELSE p.rewards[Len(p.rewards)]

RECURSIVE SumOver(_, _)
SumOver(f, S) ==
    IF S = {} THEN 0
    ELSE LET x == CHOOSE y \in S : TRUE IN f[x] + SumOver(f, S \ {x})

\* Unsigned arithmetic of the build: a result outside the width panics when
\* overflow checks are compiled in and wraps otherwise.
Arith(v, width, chk) ==
    IF v >= 0 /\ v < width THEN [val |-> v, fault |-> "none"]
    ELSE IF chk THEN [val |-> 0, fault |-> "overflow"]
    ELSE [val |-> v % width, fault |-> "none"]

\* (staking_deadline - block_timestamp()) / (24 * 60 * 60), on u64
remaining_days(p, t, chk) ==
    LET d == Arith(p.staking_deadline - t, U64, chk) IN
    IF d.fault # "none" THEN [val |-> 0, fault |-> "remaining_days_underflow"]
    ELSE [val |-> d.val \div DAY, fault |-> "none"]

\* Mutant of get_reward_per_token: no early return for an empty pool, so the
\* division by total_staked panics there.
get_reward_per_token_unguarded(p, t, chk) ==
    LET reward == last_reward(p)
        rd == remaining_days(p, t, chk)
        new_reward == reward \div 2
        per_day == IF rd.val = 0 THEN new_reward ELSE new_reward \div rd.val
        m == Arith(per_day * SCALE, U128, chk)
        r == Arith(p.reward_per_token + (m.val \div p.total_staked), U128, chk)
    IN  IF rd.fault # "none" THEN [val |-> 0, fault |-> rd.fault]
        ELSE IF m.fault # "none" THEN [val |-> 0, fault |-> "overflow"]
        ELSE IF p.total_staked = 0 THEN [val |-> 0, fault |-> "div_total_staked"]
        ELSE IF r.fault # "none" THEN [val |-> 0, fault |-> "overflow"]
        ELSE [val |-> r.val, fault |-> "none"]

\* StakingPool::get_reward_per_token
get_reward_per_token(p, t, chk) ==
    IF p.total_staked = 0 THEN [val |-> p.reward_per_token, fault |-> "none"]
    ELSE
    LET reward == last_reward(p)
        rd == remaining_days(p, t, chk)
        new_reward == reward \div 2
        per_day == IF rd.val = 0 THEN new_reward ELSE new_reward \div rd.val
        m == Arith(per_day * SCALE, U128, chk)
        r == Arith(p.reward_per_token + (m.val \div p.total_staked), U128, chk)
    IN  IF rd.fault # "none" THEN [val |-> 0, fault |-> rd.fault]
        ELSE IF m.fault # "none" THEN [val |-> 0, fault |-> "overflow"]
        ELSE IF r.fault # "none" THEN [val |-> 0, fault |-> "overflow"]
        ELSE [val |-> r.val, fault |-> "none"]

\* ------------------------------------------------------------ PSP22 token
\* TokenContract::new: 30% of the supply to the deployer, 70% to the staking contract.
token_new ==
    [ bal   |-> [k \in Tokens |-> [h \in Holders |->
                    IF h = Deployer THEN (Supply * 30) \div 100
                    ELSE IF h = Pool THEN (Supply * 70) \div 100 ELSE 0]],
      allow |-> [k \in Tokens |-> [a \in Accounts |-> 0]] ]

\* What a transfer of amount delivers to the receiver: all of it for the
\* token of token/src, less the fee for a fee-on-transfer asset.
delivered(amount) ==
    IF amount > transfer_fee THEN amount - transfer_fee ELSE 0

\* PSP22::transfer_from called by the pool (the spender): needs the allowance
\* and the balance, spends the allowance, debits the amount and credits what
\* the token delivers.
psp22_transfer_from(tk, token, from, to, amount) ==
    IF tk.allow[token][from] < amount \/ tk.bal[token][from] < amount
    THEN [ok |-> FALSE, tk |-> tk]
    ELSE [ok |-> TRUE,
          tk |-> [ bal   |-> [tk.bal EXCEPT ![token] =
                                [h \in Holders |->
                                   tk.bal[token][h]
                                   - (IF h = from THEN amount ELSE 0)
                                   + (IF h = to THEN delivered(amount) ELSE 0)]],
                   allow |-> [tk.allow EXCEPT ![token][from] = @ - amount] ]]

\* Mutant of transfer_from: the allowance is tested before the balance.
transfer_from_allowance_first(tk, from, to, token, amount) ==
    IF tk.allow[token][from] < amount
    THEN [err |-> "NotEnoughAllowance", tk |-> tk, invoked |-> 0, actual |-> 0]
    ELSE IF tk.bal[token][from] < amount
    THEN [err |-> "InsufficientFunds", tk |-> tk, invoked |-> 0, actual |-> 0]
    ELSE
    LET before == tk.bal[token][to]
        call == psp22_transfer_from(tk, token, from, to, amount)
        after == call.tk.bal[token][to]
    IN  IF ~call.ok
        THEN [err |-> "TokenTransferFailed", tk |-> call.tk, invoked |-> 1, actual |-> 0]
        ELSE IF after < before
        THEN [err |-> "Overflow", tk |-> call.tk, invoked |-> 1, actual |-> 0]
        ELSE [err |-> "Ok", tk |-> call.tk, invoked |-> 1, actual |-> after - before]

\* StakingPool::transfer_from, the gateway around the token's transfer_from.
transfer_from(tk, from, to, token, amount) ==
    IF tk.bal[token][from] < amount
    THEN [err |-> "InsufficientFunds", tk |-> tk, invoked |-> 0, actual |-> 0]
    ELSE IF tk.allow[token][from] < amount
    THEN [err |-> "NotEnoughAllowance", tk |-> tk, invoked |-> 0, actual |-> 0]
    ELSE
    LET before == tk.bal[token][to]
        call == psp22_transfer_from(tk, token, from, to, amount)
        after == call.tk.bal[token][to]
    IN  IF ~call.ok
        THEN [err |-> "TokenTransferFailed", tk |-> call.tk, invoked |-> 1, actual |-> 0]
        ELSE IF after < before
        THEN [err |-> "Overflow", tk |-> call.tk, invoked |-> 1, actual |-> 0]
        \* actual_token_staked is computed and dropped: the gateway returns Ok(())
        ELSE [err |-> "Ok", tk |-> call.tk, invoked |-> 1, actual |-> after - before]

\* ------------------------------------------------------- StakingContract
\* Mutant of new: the running total starts out of step with the empty ledger.
new_total_off(t) ==
    [ balances |-> << >>, total_staked |-> 1,
      staking_deadline |-> t + YEAR, rewards |-> << >>,
      reward_per_token |-> 0, last_update |-> 0 ]

\* The state built by StakingPool::new at block time t.
new(t) ==
    [ balances |-> << >>, total_staked |-> 0,
      staking_deadline |-> t + YEAR, rewards |-> << >>,
      reward_per_token |-> 0, last_update |-> 0 ]

\* Mutant of accrue: the accumulator is assigned, not added to, the rate of
\* the amount alone over the pool (an empty pool counted as one unit).
accrue_assign(p, amount, t, chk) ==
    LET total == IF p.total_staked = 0 THEN 1 ELSE p.total_staked IN
    [pool |-> [p EXCEPT !.reward_per_token = (amount * SCALE) \div total],
     fault |-> "none"]

\* The accumulator update shared by stake (lines 91-98) and unstake (118-124).
accrue(p, amount, t, chk) ==
    LET rd == remaining_days(p, t, chk)
        m1 == Arith(amount * last_reward(p), U128, chk)
        reward == (m1.val \div SCALE) \div rd.val
        m2 == Arith(reward * SCALE, U128, chk)
        r == Arith(p.reward_per_token + (m2.val \div p.total_staked), U128, chk)
    IN  IF rd.fault # "none" THEN [pool |-> p, fault |-> rd.fault]
        ELSE IF m1.fault # "none" THEN [pool |-> p, fault |-> "overflow"]
        ELSE IF rd.val = 0 THEN [pool |-> p, fault |-> "div_remaining_days"]
        ELSE IF m2.fault # "none" THEN [pool |-> p, fault |-> "overflow"]
        ELSE IF p.total_staked = 0 THEN [pool |-> p, fault |-> "div_total_staked"]
        ELSE IF r.fault # "none" THEN [pool |-> p, fault |-> "overflow"]
        ELSE [pool |-> [p EXCEPT !.reward_per_token = r.val], fault |-> "none"]

\* OnStake::on_stake
on_stake(p, account, amount, t, chk) ==
    LET g == get_reward_per_token(p, t, chk)
        b == Arith(balance_of_staker(p, account) + amount, U128, chk)
        ts == Arith(p.total_staked + amount, U128, chk)
    IN  IF g.fault # "none" THEN [pool |-> p, fault |-> g.fault]
        ELSE IF b.fault # "none" \/ ts.fault # "none" THEN [pool |-> p, fault |-> "overflow"]
        ELSE [pool |-> [p EXCEPT
                 !.rewards = Append(p.rewards, g.val),
                 !.balances = [a \in DOMAIN p.balances \cup {account} |->
                                  IF a = account THEN b.val ELSE p.balances[a]],
                 !.total_staked = ts.val,
                 !.last_update = t],
              fault |-> "none"]

\* OnUnstake::on_unstake
on_unstake(p, account, amount, t, chk) ==
    LET g == get_reward_per_token(p, t, chk)
        b == Arith(balance_of_staker(p, account) - amount, U128, chk)
        ts == Arith(p.total_staked - amount, U128, chk)
    IN  IF g.fault # "none" THEN [pool |-> p, fault |-> g.fault]
        ELSE IF account \notin DOMAIN p.balances THEN [pool |-> p, fault |-> "expect"]
        ELSE IF b.fault # "none" \/ ts.fault # "none" THEN [pool |-> p, fault |-> "overflow"]
        ELSE [pool |-> [p EXCEPT
                 !.rewards = Append(p.rewards, g.val),
                 !.balances = [p.balances EXCEPT ![account] = b.val],
                 !.total_staked = ts.val,
                 !.last_update = t],
              fault |-> "none"]

\* ----------------------------------------------------------- StakingPool
\* What a message returns: the state it leaves, its return value ("trap" for
\* a panic), the place of the panic or the gateway's error, the number of
\* times the token's transfer_from was invoked.
Outcome(p, tk, ret, fault, invoked) ==
    [pool |-> p, tokens |-> tk, ret |-> ret, fault |-> fault, invoked |-> invoked]

\* Mutant of stake: the ledger is credited before the gateway is asked, and
\* the credit stays when the gateway refuses.
stake_credit_first(p, tk, account, amount, t, chk) ==
    LET s == on_stake(p, account, amount, t, chk)
        g == transfer_from(tk, account, Pool, staked_token, amount)
    IN  IF s.fault # "none" THEN Outcome(p, tk, "trap", s.fault, 0)
        ELSE IF g.err # "Ok" THEN Outcome(s.pool, g.tk, "false", g.err, g.invoked)
        ELSE Outcome(s.pool, g.tk, "true", "none", g.invoked)

\* Mutant of stake: the ledger is credited and no token is pulled.
stake_unbacked(p, tk, account, amount, t, chk) ==
    LET s == on_stake(p, account, amount, t, chk)
    IN  IF s.fault # "none" THEN Outcome(p, tk, "trap", s.fault, 0)
        ELSE Outcome(s.pool, tk, "true", "none", 0)

\* StakingPool::stake
stake(p, tk, account, amount, t, chk) ==
    LET g == transfer_from(tk, account, Pool, staked_token, amount)
        a == accrue(p, amount, t, chk)
        s == on_stake(a.pool, account, amount, t, chk)
    IN  IF g.err # "Ok" THEN Outcome(p, g.tk, "false", g.err, g.invoked)
        ELSE IF a.fault # "none" THEN Outcome(p, g.tk, "trap", a.fault, g.invoked)
        ELSE IF s.fault # "none" THEN Outcome(a.pool, g.tk, "trap", s.fault, g.invoked)
        ELSE Outcome(s.pool, g.tk, "true", "none", g.invoked)

\* Mutant of insufficient_stake: the comparison the wrong way round.
insufficient_stake_inverted(balance, amount) == balance > amount

\* unstake's check `balance < amount` (line 115).
insufficient_stake(balance, amount) == balance < amount

\* StakingPool::unstake
unstake(p, tk, account, amount, t, chk) ==
    LET a == accrue(p, amount, t, chk)
        s == on_unstake(a.pool, account, amount, t, chk)
        g == transfer_from(tk, account, Pool, staked_token, amount)
    IN  IF insufficient_stake(balance_of_staker(p, account), amount)
        THEN Outcome(p, tk, "false", "none", 0)
        ELSE IF a.fault # "none" THEN Outcome(p, tk, "trap", a.fault, 0)
        ELSE IF s.fault # "none" THEN Outcome(a.pool, tk, "trap", s.fault, 0)
        ELSE IF g.err # "Ok" THEN Outcome(s.pool, g.tk, "false", g.err, g.invoked)
        ELSE Outcome(s.pool, g.tk, "true", "none", g.invoked)

\* claim_rewards' `earned`: balance * reward_per_token / 10_000 - rewards.last()
earned_of(p, account, t, chk) ==
    LET balance == balance_of_staker(p, account)
        rpt == get_reward_per_token(p, t, chk)
        m == Arith(balance * rpt.val, U128, chk)
        e == Arith((m.val \div SCALE) - last_reward(p), U128, chk)
    IN  IF rpt.fault # "none" THEN [val |-> 0, fault |-> rpt.fault]
        ELSE IF m.fault # "none" \/ e.fault # "none" THEN [val |-> 0, fault |-> "overflow"]
        ELSE [val |-> e.val, fault |-> "none"]

\* Mutant of claim_rewards: the snapshot is pushed before `earned == 0` is tested.
claim_rewards_push_first(p, tk, account, t, chk) ==
    LET e == earned_of(p, account, t, chk)
        pushed == [p EXCEPT !.rewards = Append(p.rewards, e.val)]
        g == transfer_from(tk, account, Pool, reward_token, e.val)
    IN  IF e.fault # "none" THEN Outcome(p, tk, "trap", e.fault, 0)
        ELSE IF e.val = 0 THEN Outcome(pushed, tk, "false", "none", 0)
        ELSE IF g.err # "Ok" THEN Outcome(pushed, g.tk, "false", g.err, g.invoked)
        ELSE Outcome(pushed, g.tk, "true", "none", g.invoked)

\* StakingPool::claim_rewards
claim_rewards(p, tk, account, t, chk) ==
    LET e == earned_of(p, account, t, chk)
        pushed == [p EXCEPT !.rewards = Append(p.rewards, e.val)]
        g == transfer_from(tk, account, Pool, reward_token, e.val)
    IN  IF e.fault # "none" THEN Outcome(p, tk, "trap", e.fault, 0)
        ELSE IF e.val = 0 THEN Outcome(p, tk, "false", "none", 0)
        ELSE IF g.err # "Ok" THEN Outcome(pushed, g.tk, "false", g.err, g.invoked)
        ELSE Outcome(pushed, g.tk, "true", "none", g.invoked)

\* A panic traps the call and the host rolls the transaction back.
Commit(p, tk, o) ==
    IF o.ret = "trap" THEN [pool |-> p, tokens |-> tk]
    ELSE [pool |-> o.pool, tokens |-> o.tokens]

\* ---------------------------------------------------------------- actions
Record(op, account, amount, o) ==
    [ op |-> op, caller |-> account, amount |-> amount, ret |-> o.ret,
      fault |-> o.fault, invoked |-> o.invoked, at |-> now,
      pre |-> pool_state, pre_tokens |-> tokens ]

\* A step of the environment (the token, the clock) is no message of the pool.
Idle(tk, t) ==
    [ op |-> "none", caller |-> Deployer, amount |-> 0, ret |-> "true",
      fault |-> "none", invoked |-> 0, at |-> t,
      pre |-> pool_state, pre_tokens |-> tk ]

Install(c) ==
    /\ balances' = c.pool.balances
    /\ total_staked' = c.pool.total_staked
    /\ staking_deadline' = c.pool.staking_deadline
    /\ rewards' = c.pool.rewards
    /\ reward_per_token' = c.pool.reward_per_token
    /\ last_update' = c.pool.last_update
    /\ tokens' = c.tokens

Init ==
    /\ balances = new(Created).balances
    /\ total_staked = new(Created).total_staked
    /\ staking_deadline = new(Created).staking_deadline
    /\ rewards = new(Created).rewards
    /\ reward_per_token = new(Created).reward_per_token
    /\ last_update = new(Created).last_update
    /\ now = Created
    /\ overflow_checks \in BOOLEAN
    /\ tokens = token_new
    /\ transfer_fee \in 0 .. MaxFee
    /\ last = [ op |-> "none", caller |-> Deployer, amount |-> 0, ret |-> "true",
                fault |-> "none", invoked |-> 0, at |-> Created,
                pre |-> new(Created), pre_tokens |-> token_new ]

Stake(account, amount) ==
    LET o == stake(pool_state, tokens, account, amount, now, overflow_checks) IN
    /\ Install(Commit(pool_state, tokens, o))
    /\ last' = Record("stake", account, amount, o)
    /\ UNCHANGED << now, overflow_checks, transfer_fee >>

Unstake(account, amount) ==
    LET o == unstake(pool_state, tokens, account, amount, now, overflow_checks) IN
    /\ Install(Commit(pool_state, tokens, o))
    /\ last' = Record("unstake", account, amount, o)
    /\ UNCHANGED << now, overflow_checks, transfer_fee >>

ClaimRewards(account) ==
    LET o == claim_rewards(pool_state, tokens, account, now, overflow_checks) IN
    /\ Install(Commit(pool_state, tokens, o))
    /\ last' = Record("claim_rewards", account, 0, o)
    /\ UNCHANGED << now, overflow_checks, transfer_fee >>

\* The read-only message get_reward_per_token.
GetRewardPerToken(account) ==
    LET g == get_reward_per_token(pool_state, now, overflow_checks)
        o == Outcome(pool_state, tokens,
                     IF g.fault = "none" THEN g.val ELSE "trap", g.fault, 0) IN
    /\ last' = Record("get_reward_per_token", account, 0, o)
    /\ UNCHANGED << balances, total_staked, staking_deadline, rewards,
                    reward_per_token, last_update, now, overflow_checks, tokens,
                    transfer_fee >>

\* PSP22::approve by a holder, for the pool as spender.
Approve(token, account, amount) ==
    /\ tokens' = [tokens EXCEPT !.allow[token][account] = amount]
    /\ last' = Idle(tokens', now)
    /\ UNCHANGED << balances, total_staked, staking_deadline, rewards,
                    reward_per_token, last_update, now, overflow_checks,
                    transfer_fee >>

\* PSP22::transfer between two holders.
Transfer(token, from, to, amount) ==
    /\ from # to
    /\ amount > 0
    /\ tokens.bal[token][from] >= amount
    /\ tokens' = [tokens EXCEPT !.bal[token][from] = @ - amount,
                                !.bal[token][to] = @ + delivered(amount)]
    /\ last' = Idle(tokens', now)
    /\ UNCHANGED << balances, total_staked, staking_deadline, rewards,
                    reward_per_token, last_update, now, overflow_checks,
                    transfer_fee >>

\* The times the clock visits: the start, the last whole day, the last day
\* before the deadline, the deadline and the time after it.
TimePoints ==
    {Created, Created + YEAR - DAY, Created + YEAR - DAY + 1, Created + YEAR}
    \cup {Created + YEAR + k * DAY : k \in 1 .. MaxPast}

\* block_timestamp advances.
Tick(t) ==
    /\ t > now
    /\ now' = t
    /\ last' = Idle(tokens, t)
    /\ UNCHANGED << balances, total_staked, staking_deadline, rewards,
                    reward_per_token, last_update, overflow_checks, tokens,
                    transfer_fee >>

Next ==
    \/ \E a \in Accounts, n \in Amounts : Stake(a, n)
    \/ \E a \in Accounts, n \in Amounts : Unstake(a, n)
    \/ \E a \in Accounts : ClaimRewards(a)
    \/ \E a \in Accounts : GetRewardPerToken(a)
    \/ \E k \in Tokens, a \in Accounts, n \in Approvals : Approve(k, a, n)
    \/ \E k \in Tokens, a \in Accounts, b \in Accounts, n \in Amounts : Transfer(k, a, b, n)
    \/ \E t \in TimePoints : Tick(t)

Spec == Init /\ [][Next]_vars

\* ------------------------------------------------------------------ claims
Messages == {"stake", "unstake", "claim_rewards", "get_reward_per_token"}

\* The sum of all values of the ledger.
SumBalances == SumOver(balances, DOMAIN balances)

\* C1: in every reachable state total_staked equals the sum of all values
\* in balances.
C1_TotalStakedIsSum == total_staked = SumBalances

\* C1 witness: a stake that passed the gateway has run (and trapped) and the
\* two still agree.
C1_Witness ==
    /\ last.op = "stake" /\ last.amount > 0 /\ last.invoked = 1
    /\ total_staked = SumBalances

C3_StakeSucceeds ==
    ( /\ last.op = "stake" /\ last.amount > 0
      /\ last.pre_tokens.bal[staked_token][last.caller] >= last.amount
      /\ last.pre_tokens.allow[staked_token][last.caller] >= last.amount )
    => ( /\ last.ret = "true"
         /\ balance_of_staker(pool_state, last.caller)
              = balance_of_staker(last.pre, last.caller) + last.amount
         /\ total_staked = last.pre.total_staked + last.amount
         /\ \A a \in Accounts \ {last.caller} :
              balance_of_staker(pool_state, a) = balance_of_staker(last.pre, a) )

\* C4 (as claimed): a stake or unstake that reaches the accumulator update
\* with total_staked = 0 does not divide by zero there.
C4_NoDivisionByZeroOnEmptyPool ==
    (last.op \in {"stake", "unstake"} /\ last.pre.total_staked = 0)
    => last.fault # "div_total_staked"

\* C5 (as claimed): from 86400 seconds before the deadline on, no message
\* divides by a zero remaining_days or underflows computing it.
C5_NoFaultAtDeadline ==
    (last.op \in Messages /\ last.at > last.pre.staking_deadline - DAY)
    => last.fault \notin {"div_remaining_days", "remaining_days_underflow"}

\* C6: unstake of more than the caller's staked balance returns false,
\* leaves the whole pool state as it was and attempts no token transfer.
C6_UnstakeTooMuchRejected ==
    (last.op = "unstake" /\ last.amount > balance_of_staker(last.pre, last.caller))
    => ( /\ last.ret = "false"
         /\ pool_state = last.pre
         /\ last.invoked = 0
         /\ tokens = last.pre_tokens )

\* C6 witness: a caller with no entry in balances has asked for a positive amount.
C6_Witness ==
    /\ last.op = "unstake" /\ last.amount > 0
    /\ last.caller \notin DOMAIN last.pre.balances
    /\ last.ret = "false"

\* What claim_rewards computed as earned for the last caller.
LastEarned == earned_of(last.pre, last.caller, last.at, overflow_checks)

\* C10: a claim_rewards that computes earned = 0 returns false, appends
\* nothing, attempts no token transfer and leaves the pool state as it was.
C10_ZeroClaimIsNoOp ==
    (last.op = "claim_rewards" /\ LastEarned.fault = "none" /\ LastEarned.val = 0)
    => ( /\ last.ret = "false"
         /\ rewards = last.pre.rewards
         /\ pool_state = last.pre
         /\ last.invoked = 0
         /\ tokens = last.pre_tokens )

\* C10 witness: a claim that computed earned = 0 has returned false.
C10_Witness ==
    /\ last.op = "claim_rewards" /\ LastEarned.fault = "none" /\ LastEarned.val = 0
    /\ last.ret = "false"

\* What the gateway did in the last stake: its result on the token state
\* the call started from.
LastGateway ==
    transfer_from(last.pre_tokens, last.caller, Pool, staked_token, last.amount)

\* C11 (as claimed): when the staked asset delivers less than the amount
\* asked for, stake credits balances[caller] and total_staked with what the
\* pool received (balance after minus balance before), not with the amount.
C11_StakeCreditsActualReceived ==
    ( /\ last.op = "stake"
      /\ LastGateway.err = "Ok"
      /\ LastGateway.actual < last.amount )
    => ( /\ last.ret = "true"
         /\ balance_of_staker(pool_state, last.caller)
              = balance_of_staker(last.pre, last.caller) + LastGateway.actual
         /\ total_staked = last.pre.total_staked + LastGateway.actual )

\* C12 (as claimed): stake(0) fails with AmountMustBePositive, unstake(0)
\* returns failure, and both leave the pool state as it was.
C12_ZeroAmountRejected ==
    (last.op \in {"stake", "unstake"} /\ last.amount = 0)
    => ( /\ last.ret = "false"
         /\ (last.op = "stake" => last.fault = "AmountMustBePositive")
         /\ pool_state = last.pre )

\* C13: the gateway tests the sender's balance first and the allowance
\* second: a balance below amount gives InsufficientFunds (whatever the
\* allowance), otherwise an allowance below amount gives NotEnoughAllowance;
\* either way the token's transfer_from is not invoked and no token balance
\* or allowance changes.
C13_GatewayChecksInOrder ==
    LET bal == last.pre_tokens.bal[staked_token][last.caller]
        alw == last.pre_tokens.allow[staked_token][last.caller]
    IN  last.op = "stake" =>
        /\ bal < last.amount =>
             /\ last.fault = "InsufficientFunds"
             /\ last.invoked = 0 /\ tokens = last.pre_tokens
        /\ (bal >= last.amount /\ alw < last.amount) =>
             /\ last.fault = "NotEnoughAllowance"
             /\ last.invoked = 0 /\ tokens = last.pre_tokens

\* C13 witness: balance and allowance were both too small and the gateway
\* answered InsufficientFunds.
C13_Witness ==
    /\ last.op = "stake"
    /\ last.pre_tokens.bal[staked_token][last.caller] < last.amount
    /\ last.pre_tokens.allow[staked_token][last.caller] < last.amount
    /\ last.fault = "InsufficientFunds" /\ last.ret = "false"

GatewayErrors ==
    {"InsufficientFunds", "NotEnoughAllowance", "TokenTransferFailed", "Overflow"}
Mutating == {"stake", "unstake", "claim_rewards"}

PushedByLedgerOp(p, rpt, t) ==
    get_reward_per_token([p EXCEPT !.reward_per_token = rpt], t, overflow_checks).val

ClaimedRemainingDays(p, t) ==
    IF t >= p.staking_deadline THEN 0 ELSE (p.staking_deadline - t) \div DAY

\* The value C18 gives for get_reward_per_token.
ClaimedRewardPerToken(p, t) ==
    LET h == last_reward(p) \div 2
        rd == ClaimedRemainingDays(p, t)
    IN  IF p.total_staked = 0 THEN p.reward_per_token
        ELSE IF rd > 0
        THEN p.reward_per_token + ((h \div rd) * SCALE) \div p.total_staked
        ELSE p.reward_per_token + (h * SCALE) \div p.total_staked

====
